---- MODULE Spec2Model ----
(***************************************************************************)
(* Model of the poker hand evaluator (poker4.py, HandEvaluator) and of the *)
(* hand strength calculator (poker5.py, HandStrengthCalculator).           *)
(*                                                                         *)
(* A card is a record [value, suit].  A hand is a sequence of cards, in    *)
(* the order in which the caller supplied them (Python list).              *)
(* Strengths are exact rationals, kept as integers in units of 1/Unit.     *)
(***************************************************************************)
EXTENDS Integers, Sequences, FiniteSets, TLC

VARIABLES hand, community_cards, pc, out, prev, player_profiles, hand_history

vars == <<hand, community_cards, pc, out, prev, player_profiles, hand_history>>

\* the state of the game and of the last call to the evaluator or calculator
game == <<hand, community_cards, out, prev>>

\* the state of the opponent tracker
tracker == <<player_profiles, hand_history>>

-----------------------------------------------------------------------------
(* Card model                                                              *)

MinValue == 2
MaxValue == 14

Suit == <<"HEARTS", "DIAMONDS", "CLUBS", "SPADES">>

Card(v, s) == [value |-> v, suit |-> s]

HIGH_CARD == 1
PAIR == 2
TWO_PAIR == 3
THREE_OF_A_KIND == 4
STRAIGHT == 5
FLUSH == 6
FULL_HOUSE == 7
FOUR_OF_A_KIND == 8
STRAIGHT_FLUSH == 9
ROYAL_FLUSH == 10

HandRank == HIGH_CARD..ROYAL_FLUSH

-----------------------------------------------------------------------------
(* Python list helpers                                                     *)

\* lst[:n]
Take(s, n) == SubSeq(s, 1, IF n < Len(s) THEN n ELSE Len(s))

\* [card for card in hand if card.value == v], in hand order
WithValue(h, v) == SelectSeq(h, LAMBDA c : c.value = v)

\* [card for card in hand if card.value != v], in hand order
WithoutValue(h, v) == SelectSeq(h, LAMBDA c : c.value # v)

RECURSIVE SortedFrom(_, _)
SortedFrom(h, v) ==
    IF v < MinValue THEN <<>> ELSE WithValue(h, v) \o SortedFrom(h, v - 1)

\* sorted(hand, key=lambda card: card.value, reverse=True): a stable sort,
\* cards of equal value keep their relative order in the hand
SortedByValueDesc(h) == SortedFrom(h, MaxValue)

RECURSIVE ValuesFrom(_, _)
ValuesFrom(h, v) ==
    IF v < MinValue THEN <<>>
    ELSE (IF \E i \in 1..Len(h) : h[i].value = v THEN <<v>> ELSE <<>>)
         \o ValuesFrom(h, v - 1)

\* sorted(set(card.value for card in hand), reverse=True)
ValuesDesc(h) == ValuesFrom(h, MaxValue)

SetMin(S) == CHOOSE x \in S : \A y \in S : x <= y

Ranks(cs) == [i \in 1..Len(cs) |-> cs[i].value]

-----------------------------------------------------------------------------
(* HandEvaluator                                                           *)

\* get_flush_cards without the sort: the first 5 cards of the suit, in hand order
get_flush_cards_unsorted(h) ==
    LET SuitCards(s) == SelectSeq(h, LAMBDA c : c.suit = s)
        firsts == {i \in 1..Len(h) :
                     /\ \A j \in 1..(i - 1) : h[j].suit # h[i].suit
                     /\ Len(SuitCards(h[i].suit)) >= 5}
    IN  IF firsts = {} THEN <<>>
        ELSE Take(SuitCards(h[SetMin(firsts)].suit), 5)

\* _get_flush_cards cut to the 5 lowest cards of the suit
get_flush_cards_lowest(h) ==
    LET SuitCards(s) == SelectSeq(h, LAMBDA c : c.suit = s)
        firsts == {i \in 1..Len(h) :
                     /\ \A j \in 1..(i - 1) : h[j].suit # h[i].suit
                     /\ Len(SuitCards(h[i].suit)) >= 5}
    IN  IF firsts = {} THEN <<>>
        ELSE LET sorted == SortedByValueDesc(SuitCards(h[SetMin(firsts)].suit))
             IN  SubSeq(sorted, Len(sorted) - 4, Len(sorted))

get_flush_cards(h) ==
    LET SuitCards(s) == SelectSeq(h, LAMBDA c : c.suit = s)
        \* positions at which a suit is first seen: the keys of the dict,
        \* in insertion order
        firsts == {i \in 1..Len(h) :
                     /\ \A j \in 1..(i - 1) : h[j].suit # h[i].suit
                     /\ Len(SuitCards(h[i].suit)) >= 5}
    IN  IF firsts = {} THEN <<>>
        ELSE Take(SortedByValueDesc(SuitCards(h[SetMin(firsts)].suit)), 5)

\* _get_straight_cards that also finds 5-4-3-2-A, the Ace counted low
get_straight_cards_wheel(h) ==
    LET values == ValuesDesc(h)
        hits == {i \in 1..(Len(values) - 4) : values[i] - values[i + 4] = 4}
        wheel == \A v \in {14, 5, 4, 3, 2} : WithValue(h, v) # <<>>
    IN  IF hits # {}
        THEN LET top == values[SetMin(hits)]
             IN  [k \in 1..5 |-> Head(WithValue(h, top - (k - 1)))]
        ELSE IF wheel
        THEN [k \in 1..5 |-> Head(WithValue(h, IF k = 5 THEN 14 ELSE 6 - k))]
        ELSE <<>>

get_straight_cards(h) ==
    LET values == ValuesDesc(h)
        hits == {i \in 1..(Len(values) - 4) : values[i] - values[i + 4] = 4}
    IN  IF hits = {} THEN <<>>
        ELSE LET top == values[SetMin(hits)]
             IN  [k \in 1..5 |-> Head(WithValue(h, top - (k - 1)))]

\* get_n_of_a_kind with every other card appended as a kicker
get_n_of_a_kind_all_kickers(h, n) ==
    LET values == ValuesDesc(h)
        hits == {i \in 1..Len(values) : Len(WithValue(h, values[i])) >= n}
    IN  IF hits = {} THEN <<>>
        ELSE LET value == values[SetMin(hits)]
             IN  Take(WithValue(h, value), n)
                 \o WithoutValue(SortedByValueDesc(h), value)

\* get_n_of_a_kind with the kickers taken in hand order
get_n_of_a_kind_hand_order(h, n) ==
    LET values == ValuesDesc(h)
        hits == {i \in 1..Len(values) : Len(WithValue(h, values[i])) >= n}
    IN  IF hits = {} THEN <<>>
        ELSE LET value == values[SetMin(hits)]
                 result == Take(WithValue(h, value), n)
             IN  result \o Take(WithoutValue(h, value),
                                IF Len(result) < 5 THEN 5 - Len(result) ELSE 0)

get_n_of_a_kind(h, n) ==
    LET values == ValuesDesc(h)
        hits == {i \in 1..Len(values) : Len(WithValue(h, values[i])) >= n}
    IN  IF hits = {} THEN <<>>
        ELSE LET value == values[SetMin(hits)]
                 result == Take(WithValue(h, value), n)
                 kickers == Take(WithoutValue(SortedByValueDesc(h), value),
                                 IF Len(result) < 5 THEN 5 - Len(result) ELSE 0)
             IN  result \o kickers

\* _get_full_house that looks for the pair among every card of the hand
get_full_house_unfiltered(h) ==
    LET three_kind == get_n_of_a_kind(h, 3)
    IN  IF three_kind = <<>> THEN <<>>
        ELSE LET pair == get_n_of_a_kind(h, 2)
             IN  IF pair # <<>> THEN Take(three_kind, 3) \o Take(pair, 2)
                 ELSE <<>>

get_full_house(h) ==
    LET three_kind == get_n_of_a_kind(h, 3)
    IN  IF three_kind = <<>> THEN <<>>
        ELSE LET remaining_cards == WithoutValue(h, three_kind[1].value)
                 pair == get_n_of_a_kind(remaining_cards, 2)
             IN  IF pair # <<>> THEN Take(three_kind, 3) \o Take(pair, 2)
                 ELSE <<>>

\* get_two_pair with a kicker that only avoids the value of the first pair
get_two_pair_kicker_of_pair(h) ==
    LET values == ValuesDesc(h)
        paired == SelectSeq(values, LAMBDA v : Len(WithValue(h, v)) >= 2)
    IN  IF Len(paired) < 2 THEN <<>>
        ELSE LET pairs == Take(WithValue(h, paired[1]), 2)
                          \o Take(WithValue(h, paired[2]), 2)
                 kickers == Take(SelectSeq(SortedByValueDesc(h),
                                   LAMBDA c : c.value # pairs[1].value), 1)
             IN  Take(pairs, 4) \o kickers

\* _get_two_pair with the lowest other card as the kicker
get_two_pair_lowest_kicker(h) ==
    LET values == ValuesDesc(h)
        paired == SelectSeq(values, LAMBDA v : Len(WithValue(h, v)) >= 2)
    IN  IF Len(paired) < 2 THEN <<>>
        ELSE LET pairs == Take(WithValue(h, paired[1]), 2)
                          \o Take(WithValue(h, paired[2]), 2)
                 others == SelectSeq(SortedByValueDesc(h),
                                   LAMBDA c : /\ c.value # pairs[1].value
                                              /\ c.value # pairs[3].value)
             IN  Take(pairs, 4) \o SubSeq(others, Len(others), Len(others))

get_two_pair(h) ==
    LET values == ValuesDesc(h)
        paired == SelectSeq(values, LAMBDA v : Len(WithValue(h, v)) >= 2)
    IN  IF Len(paired) < 2 THEN <<>>
        ELSE LET pairs == Take(WithValue(h, paired[1]), 2)
                          \o Take(WithValue(h, paired[2]), 2)
                 kickers == Take(SelectSeq(SortedByValueDesc(h),
                                   LAMBDA c : /\ c.value # pairs[1].value
                                              /\ c.value # pairs[3].value), 1)
             IN  Take(pairs, 4) \o kickers

NoResult == [err |-> "", rank |-> 0, cards |-> <<>>,
             strength |-> -1, made |-> -1, draw |-> -1,
             flush_draw |-> FALSE, straight_draw |-> 0]

Raised(msg) == [NoResult EXCEPT !.err = msg]

Evaluated(rank, cards) == [NoResult EXCEPT !.rank = rank, !.cards = cards]

InvalidHandSize == "ValueError: Need at least 5 cards to evaluate a poker hand"

MinHandSize == 5

hand_too_small_lax(h) == Len(h) < MinHandSize - 1

\* if len(hand) < 5
hand_too_small(h) == Len(h) < MinHandSize

evaluate(h) ==
    IF hand_too_small(h) THEN Raised(InvalidHandSize)
    ELSE
    LET flush_cards == get_flush_cards(h)
        straight_flush_cards ==
            IF flush_cards # <<>> THEN get_straight_cards(flush_cards) ELSE <<>>
        four_kind == get_n_of_a_kind(h, 4)
        full_house == get_full_house(h)
        straight == get_straight_cards(h)
        three_kind == get_n_of_a_kind(h, 3)
        two_pair == get_two_pair(h)
        pair == get_n_of_a_kind(h, 2)
    IN  IF straight_flush_cards # <<>> THEN
            IF straight_flush_cards[1].value = 14
            THEN Evaluated(ROYAL_FLUSH, straight_flush_cards)
            ELSE Evaluated(STRAIGHT_FLUSH, straight_flush_cards)
        ELSE IF four_kind # <<>> THEN Evaluated(FOUR_OF_A_KIND, four_kind)
        ELSE IF full_house # <<>> THEN Evaluated(FULL_HOUSE, full_house)
        ELSE IF flush_cards # <<>> THEN Evaluated(FLUSH, Take(flush_cards, 5))
        ELSE IF straight # <<>> THEN Evaluated(STRAIGHT, straight)
        ELSE IF three_kind # <<>> THEN Evaluated(THREE_OF_A_KIND, three_kind)
        ELSE IF two_pair # <<>> THEN Evaluated(TWO_PAIR, two_pair)
        ELSE IF pair # <<>> THEN Evaluated(PAIR, pair)
        ELSE Evaluated(HIGH_CARD, Take(SortedByValueDesc(h), 5))

-----------------------------------------------------------------------------
(* HandStrengthCalculator                                                  *)

\* 1.0, in the units in which strengths are kept: every constant of the
\* calculator (x/24, 0.05, 0.7 * 0.98 * ...) is a whole number of units
Unit == 24 * 1000

InvalidPreflopHand == "ValueError: Preflop hand must contain exactly 2 cards"

PreflopHandSize == 2

\* at most 5 shared cards: the river
MaxCommunity == 5

not_preflop_hand_lax(h) == Len(h) < PreflopHandSize

\* _calculate_preflop_strength without the clamp to 1.0
calculate_preflop_strength_unclamped(h) ==
    IF Len(h) # PreflopHandSize THEN Raised(InvalidPreflopHand)
    ELSE
    LET sorted_hand == SortedByValueDesc(h)
        suited == sorted_hand[1].suit = sorted_hand[2].suit
        gap == sorted_hand[1].value - sorted_hand[2].value - 1
        base == (3 * Unit) \div 10 + ((sorted_hand[1].value - 2) * Unit) \div 24
        strength == base
                    + (IF suited THEN Unit \div 10 ELSE 0)
                    + (IF gap = 0 THEN Unit \div 10
                       ELSE IF gap = 1 THEN Unit \div 20 ELSE 0)
                    + (IF sorted_hand[2].value >= 10 THEN Unit \div 10 ELSE 0)
    IN  IF sorted_hand[1].value = sorted_hand[2].value
        THEN [NoResult EXCEPT !.strength =
                 Unit \div 2 + ((sorted_hand[1].value - 2) * Unit) \div 24]
        ELSE [NoResult EXCEPT !.strength = strength]

\* if len(hand) != 2
not_preflop_hand(h) == Len(h) # PreflopHandSize

calculate_preflop_strength(h) ==
    IF not_preflop_hand(h) THEN Raised(InvalidPreflopHand)
    ELSE
    LET sorted_hand == SortedByValueDesc(h)
        suited == sorted_hand[1].suit = sorted_hand[2].suit
        gap == sorted_hand[1].value - sorted_hand[2].value - 1
        base == (3 * Unit) \div 10 + ((sorted_hand[1].value - 2) * Unit) \div 24
        strength == base
                    + (IF suited THEN Unit \div 10 ELSE 0)
                    + (IF gap = 0 THEN Unit \div 10
                       ELSE IF gap = 1 THEN Unit \div 20 ELSE 0)
                    + (IF sorted_hand[2].value >= 10 THEN Unit \div 10 ELSE 0)
    IN  IF sorted_hand[1].value = sorted_hand[2].value
        THEN [NoResult EXCEPT !.strength =
                 Unit \div 2 + ((sorted_hand[1].value - 2) * Unit) \div 24]
        ELSE [NoResult EXCEPT !.strength =
                 IF strength > Unit THEN Unit ELSE strength]

\* base_strength, in hundredths
base_strength(hand_rank) ==
    CASE hand_rank = HIGH_CARD -> 10
      [] hand_rank = PAIR -> 20
      [] hand_rank = TWO_PAIR -> 40
      [] hand_rank = THREE_OF_A_KIND -> 60
      [] hand_rank = STRAIGHT -> 70
      [] hand_rank = FLUSH -> 80
      [] hand_rank = FULL_HOUSE -> 90
      [] hand_rank = FOUR_OF_A_KIND -> 95
      [] hand_rank = STRAIGHT_FLUSH -> 98
      [] hand_rank = ROYAL_FLUSH -> 100

\* strength_map with the values of Flush and Full House exchanged
calculate_hand_strength_exchanged(hand_rank) ==
    CASE hand_rank = HIGH_CARD -> (20 * Unit) \div 100
      [] hand_rank = PAIR -> (40 * Unit) \div 100
      [] hand_rank = TWO_PAIR -> (60 * Unit) \div 100
      [] hand_rank = THREE_OF_A_KIND -> (70 * Unit) \div 100
      [] hand_rank = STRAIGHT -> (80 * Unit) \div 100
      [] hand_rank = FLUSH -> (90 * Unit) \div 100
      [] hand_rank = FULL_HOUSE -> (85 * Unit) \div 100
      [] hand_rank = FOUR_OF_A_KIND -> (95 * Unit) \div 100
      [] hand_rank = STRAIGHT_FLUSH -> (98 * Unit) \div 100
      [] hand_rank = ROYAL_FLUSH -> Unit

\* PokerBot._calculate_hand_strength: strength_map, in units
calculate_hand_strength(hand_rank) ==
    CASE hand_rank = HIGH_CARD -> (20 * Unit) \div 100
      [] hand_rank = PAIR -> (40 * Unit) \div 100
      [] hand_rank = TWO_PAIR -> (60 * Unit) \div 100
      [] hand_rank = THREE_OF_A_KIND -> (70 * Unit) \div 100
      [] hand_rank = STRAIGHT -> (80 * Unit) \div 100
      [] hand_rank = FLUSH -> (85 * Unit) \div 100
      [] hand_rank = FULL_HOUSE -> (90 * Unit) \div 100
      [] hand_rank = FOUR_OF_A_KIND -> (95 * Unit) \div 100
      [] hand_rank = STRAIGHT_FLUSH -> (98 * Unit) \div 100
      [] hand_rank = ROYAL_FLUSH -> Unit

\* the quality adjustment, in 24ths
calculate_quality_adjustment(hand_rank, best_cards) ==
    IF hand_rank = HIGH_CARD THEN 2 * (best_cards[1].value - 2)
    ELSE IF hand_rank = PAIR THEN 2 * (best_cards[1].value - 2)
    ELSE IF hand_rank = TWO_PAIR
         THEN (best_cards[1].value - 2) + (best_cards[3].value - 2)
    ELSE 24

\* an evaluation result with made-hand strength, or the evaluator's error
calculate_made_hand_strength(h, cc) ==
    LET all_cards == h \o cc
        ev == evaluate(all_cards)
    IN  IF ev.err # "" THEN ev
        ELSE [ev EXCEPT !.made =
                 (base_strength(ev.rank)
                  * calculate_quality_adjustment(ev.rank, ev.cards) * Unit)
                 \div (100 * 24)]

RECURSIVE ValuesUpFrom(_, _)
ValuesUpFrom(cards, v) ==
    IF v > MaxValue THEN <<>>
    ELSE (IF \E i \in 1..Len(cards) : cards[i].value = v THEN <<v>> ELSE <<>>)
         \o ValuesUpFrom(cards, v + 1)

\* identify_draws with a flush draw from 3 cards of a suit on
identify_draws_three_suited(cards) ==
    LET count(s) == Len(SelectSeq(cards, LAMBDA c : c.suit = s))
        values == ValuesUpFrom(cards, MinValue)
        gaps == [i \in 1..(Len(values) - 1) |-> values[i + 1] - values[i]]
        sum3 == gaps[1] + gaps[2] + gaps[3]
    IN  [flush_draw |->
            IF \E i \in 1..Len(cards) : count(cards[i].suit) >= 3 THEN 9 ELSE 0,
         straight_draw |->
            IF Len(values) >= 4 /\ sum3 = 3 THEN 8
            ELSE IF Len(values) >= 4 /\ sum3 = 4 THEN 4
            ELSE 0]

\* the dict of draws: a key that is absent has 0 outs
identify_draws(cards) ==
    LET count(s) == Len(SelectSeq(cards, LAMBDA c : c.suit = s))
        values == ValuesUpFrom(cards, MinValue)
        gaps == [i \in 1..(Len(values) - 1) |-> values[i + 1] - values[i]]
        sum3 == gaps[1] + gaps[2] + gaps[3]
    IN  [flush_draw |->
            IF \E i \in 1..Len(cards) : count(cards[i].suit) = 4 THEN 9 ELSE 0,
         straight_draw |->
            IF Len(values) >= 4 /\ sum3 = 3 THEN 8
            ELSE IF Len(values) >= 4 /\ sum3 = 4 THEN 4
            ELSE 0]

Max2(a, b) == IF a >= b THEN a ELSE b

\* _calculate_drawing_strength without the return of 0.0 on the river
calculate_drawing_strength_river(h, cc) ==
    LET draws == identify_draws(h \o cc)
        s1 == IF draws.flush_draw # 0 THEN Max2(0, (4 * Unit) \div 10) ELSE 0
    IN  IF draws.straight_draw # 0
        THEN Max2(s1, IF draws.straight_draw >= 8
                      THEN (35 * Unit) \div 100 ELSE (25 * Unit) \div 100)
        ELSE s1

calculate_drawing_strength(h, cc) ==
    IF Len(cc) >= MaxCommunity THEN 0
    ELSE LET draws == identify_draws(h \o cc)
             s1 == IF draws.flush_draw # 0 THEN Max2(0, (4 * Unit) \div 10) ELSE 0
         IN  IF draws.straight_draw # 0
             THEN Max2(s1, IF draws.straight_draw >= 8
                           THEN (35 * Unit) \div 100 ELSE (25 * Unit) \div 100)
             ELSE s1

calculate_full_strength(h, cc) ==
    IF cc = <<>> THEN calculate_preflop_strength(h)
    ELSE LET current == calculate_made_hand_strength(h, cc)
             drawing_strength == calculate_drawing_strength(h, cc)
             draws == identify_draws(h \o cc)
         IN  IF current.err # "" THEN current
             ELSE [current EXCEPT
                     !.draw = drawing_strength,
                     !.flush_draw = Len(cc) < MaxCommunity /\ draws.flush_draw # 0,
                     !.straight_draw =
                         IF Len(cc) < MaxCommunity THEN draws.straight_draw ELSE 0,
                     !.strength =
                         Max2(current.made,
                              (7 * current.made + 3 * drawing_strength) \div 10)]

-----------------------------------------------------------------------------
(* EnhancedOpponentTracker                                                 *)

\* Statistics are exact rationals [n, d] in lowest terms.
RECURSIVE GCD(_, _)
GCD(a, b) == IF b = 0 THEN a ELSE GCD(b, a % b)

Frac(n, d) == LET g == GCD(n, d) IN [n |-> n \div g, d |-> d \div g]

Zero == Frac(0, 1)

One == Frac(1, 1)

\* ((x * (k - 1)) + inc) / k
Running(x, k, inc) ==
    Frac(x.n * (k - 1) * inc.d + inc.n * x.d, x.d * inc.d * k)

Action == {"FOLD", "CHECK", "CALL", "RAISE", "ALL_IN"}

Positions == 0..8

PlayerProfile ==
    [vpip |-> Zero, pfr |-> Zero, af |-> Zero, total_hands |-> 0,
     three_bet_freq |-> Zero, fold_to_three_bet |-> Zero, avg_bet_size |-> Zero,
     position_stats |-> [i \in Positions |-> [vpip |-> Zero, pfr |-> Zero, hands |-> 0]]]

\* deque(maxlen=1000)
HistoryMax == 1000

\* the profile after track_action(player_id, action, bet_amount, game_state),
\* game_state having the given street, position and pot_size
tracked(profile, action, bet_amount, street, position, pot_size) ==
    LET total == profile.total_hands + 1
        vpip == IF action \in {"CALL", "RAISE", "ALL_IN"} /\ street = "preflop"
                THEN Running(profile.vpip, total, One) ELSE profile.vpip
        pfr == IF action \in {"RAISE", "ALL_IN"} /\ street = "preflop"
               THEN Running(profile.pfr, total, One) ELSE profile.pfr
        af == IF action \in {"RAISE", "ALL_IN"}
              THEN Running(profile.af, total, Frac(2, 1))
              ELSE IF action = "CALL" THEN Running(profile.af, total, One)
              ELSE profile.af
        pos == profile.position_stats[position]
        hands == pos.hands + 1
        pos_vpip == IF action \in {"CALL", "RAISE", "ALL_IN"}
                    THEN Running(pos.vpip, hands, One) ELSE pos.vpip
        pos_pfr == IF action \in {"RAISE", "ALL_IN"}
                   THEN Running(pos.pfr, hands, One) ELSE pos.pfr
        avg == IF action \in {"RAISE", "ALL_IN"}
               THEN Running(profile.avg_bet_size, total, Frac(bet_amount, pot_size))
               ELSE profile.avg_bet_size
    IN  [profile EXCEPT
            !.total_hands = total,
            !.vpip = vpip,
            !.pfr = pfr,
            !.af = af,
            !.position_stats =
                [profile.position_stats EXCEPT
                    ![position] = [vpip |-> pos_vpip, pfr |-> pos_pfr, hands |-> hands]],
            !.avg_bet_size = avg]

\* self.player_profiles.get(player_id, PlayerProfile())
get_stats(profiles, player_id) ==
    IF player_id \in DOMAIN profiles THEN profiles[player_id] ELSE PlayerProfile

\* deque.append with maxlen
appended(history, entry) ==
    IF Len(history) >= HistoryMax THEN Append(Tail(history), entry)
    ELSE Append(history, entry)

-----------------------------------------------------------------------------
(* The callers: the inputs they build and the calls they make              *)

\* The cards the inputs are drawn from.  The first suit holds the top
\* FlushDepth values (flushes, straight flushes with a sixth suited card),
\* the second suit the top PairDepth values and the last two suits the top
\* QuadDepth values (pairs, trips, quads, full houses).
FlushDepth == 7
PairDepth == 3
QuadDepth == 2

MaxHandSize == PreflopHandSize + MaxCommunity

Top(n) == (MaxValue - n + 1)..MaxValue

Deck ==
    {Card(v, Suit[1]) : v \in Top(FlushDepth)}
    \cup {Card(v, Suit[2]) : v \in Top(PairDepth)}
    \cup {Card(v, s) : v \in Top(QuadDepth), s \in {Suit[3], Suit[4]}}

SuitIndex(s) == CHOOSE i \in 1..4 : Suit[i] = s

Before(c, d) ==
    \/ c.value < d.value
    \/ c.value = d.value /\ SuitIndex(c.suit) < SuitIndex(d.suit)

\* the cards of S as a list, ascending by value and then by suit
RECURSIVE Listed(_)
Listed(S) ==
    IF S = {} THEN <<>>
    ELSE LET c == CHOOSE x \in S : \A y \in S \ {x} : Before(x, y)
         IN  <<c>> \o Listed(S \ {c})

\* the cards of the list L at the positions I, in the order of L
Sub(L, I) ==
    LET F[k \in 0..Len(L)] ==
            IF k = 0 THEN <<>>
            ELSE IF k \in I THEN Append(F[k - 1], L[k]) ELSE F[k - 1]
    IN  F[Len(L)]

\* numbers of hole cards a caller passes with n cards in all: 2 hole cards
\* and the rest shared, or (up to MaxHole cards) every card a hole card
MaxHole == 3

HoleCounts(n) == {k \in {PreflopHandSize, n} : k <= n /\ k <= MaxHole}

\* nothing called yet, no action tracked yet
Fresh ==
    /\ out = NoResult
    /\ prev = NoResult
    /\ player_profiles = <<>>
    /\ hand_history = <<>>

\* a table at which the actions of the players are tracked
InitTable ==
    /\ hand = <<>>
    /\ community_cards = <<>>
    /\ pc = "track"
    /\ Fresh

\* a game state: some cards of the list L, the first of them the hole cards
InitCards(L) ==
    /\ \E I \in SUBSET (1..Len(L)) :
          /\ Cardinality(I) <= MaxHandSize
          /\ \E k \in HoleCounts(Cardinality(I)) :
                /\ hand = SubSeq(Sub(L, I), 1, k)
                /\ community_cards = SubSeq(Sub(L, I), k + 1, Cardinality(I))
    /\ pc = "start"
    /\ Fresh

InitFrom(L) == InitCards(L) \/ InitTable

Init == InitFrom(Listed(Deck))

all_cards == hand \o community_cards

\* PokerBot.evaluate_hand / _calculate_made_hand_strength: the evaluator is
\* called with every card of the game state
Evaluate ==
    /\ pc = "start"
    /\ out' = evaluate(all_cards)
    /\ pc' = "evaluated"
    /\ UNCHANGED <<hand, community_cards, prev, tracker>>

\* the caller evaluates the 5 cards of a result, as a hand of 5
ReEvaluate ==
    /\ pc \in {"evaluated", "resubmitted"}
    /\ out.err = ""
    /\ hand' = out.cards
    /\ community_cards' = <<>>
    /\ prev' = out
    /\ out' = evaluate(out.cards)
    /\ pc' = "reevaluated"
    /\ UNCHANGED tracker

Swapped(s, i) ==
    [k \in 1..Len(s) |-> IF k = i THEN s[i + 1] ELSE IF k = i + 1 THEN s[i] ELSE s[k]]

\* the caller evaluates the same cards, supplied in another order
Resubmit(i) ==
    /\ pc = "evaluated"
    /\ out.err = ""
    /\ LET cs == Swapped(all_cards, i)
       IN  /\ hand' = SubSeq(cs, 1, Len(hand))
           /\ community_cards' = SubSeq(cs, Len(hand) + 1, Len(cs))
           /\ out' = evaluate(cs)
    /\ prev' = out
    /\ pc' = "resubmitted"
    /\ UNCHANGED tracker

FullStrength ==
    /\ pc = "start"
    /\ out' = calculate_full_strength(hand, community_cards)
    /\ pc' = "strength"
    /\ UNCHANGED <<hand, community_cards, prev, tracker>>

\* PokerBot._calculate_hand_strength of the category the evaluator returned
HandStrength ==
    /\ pc = "evaluated"
    /\ out.err = ""
    /\ out' = [out EXCEPT !.strength = calculate_hand_strength(out.rank)]
    /\ pc' = "hand_strength"
    /\ UNCHANGED <<hand, community_cards, prev, tracker>>

\* the calls of track_action a behaviour makes, at most
MaxCalls == 2

Players == {1, 2}

Streets == {"preflop", "flop"}

\* the seat of a player
Seat(player_id) == player_id - 1

PotSize == 100

BetAmount == 20

TrackAction(player_id, action, street) ==
    /\ pc = "track"
    /\ Len(hand_history) < MaxCalls
    /\ LET bet_amount == IF action \in {"FOLD", "CHECK"} THEN 0 ELSE BetAmount
           profile == get_stats(player_profiles, player_id)
       IN  /\ player_profiles' =
                 [p \in DOMAIN player_profiles \cup {player_id} |->
                     IF p = player_id
                     THEN tracked(profile, action, bet_amount, street,
                                  Seat(player_id), PotSize)
                     ELSE player_profiles[p]]
           /\ hand_history' =
                 appended(hand_history,
                          [player_id |-> player_id, action |-> action,
                           bet_amount |-> bet_amount, street |-> street,
                           position |-> Seat(player_id), pot_size |-> PotSize])
    /\ UNCHANGED <<pc, game>>

Next ==
    \/ Evaluate
    \/ ReEvaluate
    \/ \E i \in 1..(Len(all_cards) - 1) : Resubmit(i)
    \/ FullStrength
    \/ HandStrength
    \/ \E p \in Players, a \in Action, st \in Streets : TrackAction(p, a, st)

Spec == Init /\ [][Next]_vars

\* Two-suited cards of the top TieDepth values: hands that share a category
\* and differ in the values of their pairs and kickers
TieDepth == 5

TieList ==
    Listed({Card(v, s) : v \in Top(TieDepth), s \in {Suit[1], Suit[2]}})

InitTie == InitFrom(TieList)

SpecTie == InitTie /\ [][Next]_vars

\* The flop of run_comprehensive_tests, test case 3 (hole cards Jh 10h,
\* shared cards 9h 2d 7c), followed by further cards of the deck
DrawList ==
    <<Card(11, "HEARTS"), Card(10, "HEARTS"),
      Card(9, "HEARTS"), Card(2, "DIAMONDS"), Card(7, "CLUBS"),
      Card(8, "SPADES"), Card(12, "HEARTS"), Card(6, "DIAMONDS")>>

InitDraw == InitFrom(DrawList)

SpecDraw == InitDraw /\ [][Next]_vars

\* Low cards and Aces: the ranks of the wheel, with a 6, in several suits
WheelList ==
    <<Card(14, "HEARTS"), Card(2, "DIAMONDS"), Card(3, "HEARTS"),
      Card(4, "HEARTS"), Card(5, "CLUBS"), Card(2, "HEARTS"),
      Card(5, "HEARTS"), Card(14, "DIAMONDS"), Card(3, "DIAMONDS"),
      Card(6, "HEARTS"), Card(14, "CLUBS")>>

InitWheel == InitFrom(WheelList)

SpecWheel == InitWheel /\ [][Next]_vars

\* The two-pair test hand Ah Ad 10h 10c 2s, and cards for a third pair and
\* other kickers
TwoPairList ==
    <<Card(14, "HEARTS"), Card(14, "DIAMONDS"), Card(10, "HEARTS"),
      Card(10, "CLUBS"), Card(2, "SPADES"), Card(2, "HEARTS"),
      Card(13, "DIAMONDS"), Card(9, "CLUBS"), Card(9, "SPADES")>>

InitTwoPair == InitFrom(TwoPairList)

SpecTwoPair == InitTwoPair /\ [][Next]_vars

\* One suit from 8 to Ace and a second suit from 10 to Ace: royal flushes
\* in hands with up to 7 cards of the suit, and hands one card short of one
RoyalList ==
    <<Card(14, "HEARTS"), Card(10, "DIAMONDS"), Card(13, "HEARTS"),
      Card(8, "HEARTS"), Card(12, "HEARTS"), Card(14, "DIAMONDS"),
      Card(11, "HEARTS"), Card(10, "HEARTS"), Card(13, "DIAMONDS"),
      Card(9, "HEARTS"), Card(12, "DIAMONDS"), Card(11, "DIAMONDS")>>

InitRoyal == InitFrom(RoyalList)

SpecRoyal == InitRoyal /\ [][Next]_vars

\* Four Aces, three Kings, two Queens and a Jack: one or two trips, with
\* no, one or two other pairs
FullHouseList ==
    <<Card(13, "HEARTS"), Card(14, "HEARTS"), Card(12, "HEARTS"),
      Card(14, "DIAMONDS"), Card(13, "DIAMONDS"), Card(11, "HEARTS"),
      Card(14, "CLUBS"), Card(12, "DIAMONDS"), Card(13, "CLUBS"),
      Card(14, "SPADES")>>

InitFullHouse == InitFrom(FullHouseList)

SpecFullHouse == InitFullHouse /\ [][Next]_vars

\* Preflop: any 2 cards of the 52 as hole cards (in either order) and no
\* shared cards; or a game state of the draw list
FullDeck == {Card(v, Suit[i]) : v \in MinValue..MaxValue, i \in 1..4}

InitHoleCards ==
    /\ \E c \in FullDeck, d \in FullDeck :
          /\ c # d
          /\ hand = <<c, d>>
    /\ community_cards = <<>>
    /\ pc = "start"
    /\ Fresh

InitPreflop == InitHoleCards \/ InitFrom(DrawList)

SpecPreflop == InitPreflop /\ [][Next]_vars

-----------------------------------------------------------------------------
(* Properties                                                              *)

\* states in which out holds the result of evaluate(all_cards)
EvaluatorCalled == pc \in {"evaluated", "resubmitted", "reevaluated"}

\* states in which out holds the result of calculate_full_strength
StrengthCalled == pc = "strength"

Distinct(cs) == \A i, j \in 1..Len(cs) : i # j => cs[i] # cs[j]

MemberOf(c, cs) == \E k \in 1..Len(cs) : cs[k] = c

\* C1: for every hand of 5 or more (here up to 7) distinct cards, evaluate
\* returns one of the 10 categories together with exactly 5 cards, pairwise
\* distinct and all of them cards of the hand.
C1_FiveCardsOfTheHand ==
    (EvaluatorCalled /\ Len(all_cards) >= MinHandSize) =>
        /\ out.err = ""
        /\ out.rank \in HandRank
        /\ Len(out.cards) = 5
        /\ Distinct(out.cards)
        /\ \A i \in 1..Len(out.cards) : MemberOf(out.cards[i], all_cards)

C1_Witness ==
    /\ pc = "evaluated"
    /\ Len(all_cards) = 7
    /\ out.rank = FOUR_OF_A_KIND
    /\ Len(out.cards) = 5
    /\ Distinct(out.cards)

\* The category of a set T of 5 cards by the standard rules, the Ace
\* counted as 14 only.
Category5(T) ==
    LET vals == {c.value : c \in T}
        count(v) == Cardinality({c \in T : c.value = v})
        flush == \A c, d \in T : c.suit = d.suit
        straight ==
            /\ Cardinality(vals) = 5
            /\ \E v \in vals : vals = v..(v + 4)
    IN  IF flush /\ straight
        THEN (IF 14 \in vals THEN ROYAL_FLUSH ELSE STRAIGHT_FLUSH)
        ELSE IF \E v \in vals : count(v) = 4 THEN FOUR_OF_A_KIND
        ELSE IF (\E v \in vals : count(v) = 3) /\ (\E v \in vals : count(v) = 2)
             THEN FULL_HOUSE
        ELSE IF flush THEN FLUSH
        ELSE IF straight THEN STRAIGHT
        ELSE IF \E v \in vals : count(v) = 3 THEN THREE_OF_A_KIND
        ELSE IF Cardinality({v \in vals : count(v) = 2}) = 2 THEN TWO_PAIR
        ELSE IF \E v \in vals : count(v) = 2 THEN PAIR
        ELSE HIGH_CARD

CardSet(cs) == {cs[i] : i \in 1..Len(cs)}

\* the highest category reached by a 5-card subset of the hand
BestCategory(cs) ==
    LET cats == {Category5(T) : T \in {U \in SUBSET CardSet(cs) : Cardinality(U) = 5}}
    IN  CHOOSE r \in cats : \A q \in cats : q <= r

\* C2: the category returned by evaluate is the highest category reached by
\* any 5-card subset of the hand.
C2_BestFiveCardCategory ==
    (EvaluatorCalled /\ Len(all_cards) >= MinHandSize) =>
        out.rank = BestCategory(all_cards)

\* C3: evaluating the 5 cards of a result, as a hand of 5 in the returned
\* order, returns the same category and the same 5 cards in the same order.
C3_Idempotent ==
    pc = "reevaluated" =>
        /\ out.err = ""
        /\ out.rank = prev.rank
        /\ out.cards = prev.cards

C3_Witness ==
    /\ pc = "reevaluated"
    /\ prev.rank = TWO_PAIR
    /\ out.rank = TWO_PAIR
    /\ out.cards = prev.cards
    /\ hand = prev.cards

LexGreater(a, b) ==
    \E i \in 1..Len(a) :
        /\ i <= Len(b)
        /\ a[i] > b[i]
        /\ \A j \in 1..(i - 1) : a[j] = b[j]

\* the 5-card hands of the tie list
TieHands == {Sub(TieList, I) : I \in {J \in SUBSET (1..Len(TieList)) : Cardinality(J) = 5}}

\* C4: of two hands of the same category, the one whose best 5 cards are
\* lexicographically greater by rank has a quality adjustment at least as
\* great.  Stated of the hand of the state against every hand of TieHands.
C4_TieBreakMonotone ==
    (StrengthCalled /\ out.err = "" /\ out.rank # 0) =>
        \A h2 \in TieHands :
            LET r2 == evaluate(h2)
            IN  (r2.rank = out.rank
                 /\ LexGreater(Ranks(out.cards), Ranks(r2.cards)))
                => calculate_quality_adjustment(out.rank, out.cards)
                   >= calculate_quality_adjustment(r2.rank, r2.cards)

\* C5: with 2 hole cards and 0 to 5 shared cards calculate_full_strength
\* does not raise and returns a strength in [0, 1].
C5_StrengthInUnitInterval ==
    (StrengthCalled /\ Len(hand) = PreflopHandSize
                    /\ Len(community_cards) <= MaxCommunity) =>
        /\ out.err = ""
        /\ 0 <= out.strength
        /\ out.strength <= Unit

\* C6: evaluate fails with the invalid-hand-size error, returning no
\* category and no cards, for a hand of fewer than 5 cards, and fails for no
\* hand of 5 or more cards.
C6_InvalidHandSize ==
    pc = "evaluated" =>
        /\ Len(all_cards) < 5 => out = Raised(InvalidHandSize)
        /\ Len(all_cards) >= 5 => out.err = "" /\ out.rank \in HandRank

C6_Witness ==
    /\ pc = "evaluated"
    /\ Len(all_cards) = 4
    /\ out.err = InvalidHandSize
    /\ out.rank = 0
    /\ out.cards = <<>>

\* C7: calculate_full_strength with no shared cards and a number of hole
\* cards other than 2 fails with the invalid-preflop-hand error and returns
\* no strength.
C7_InvalidPreflopHand ==
    (StrengthCalled /\ community_cards = <<>> /\ Len(hand) # 2) =>
        out = Raised(InvalidPreflopHand)

C7_Witness ==
    /\ StrengthCalled
    /\ community_cards = <<>>
    /\ Len(hand) = 3
    /\ out.err = InvalidPreflopHand
    /\ out.strength = -1

\* the flop of test case 3: hole cards Jh 10h, shared cards 9h 2d 7c
DrawExample ==
    /\ StrengthCalled
    /\ hand = <<Card(11, "HEARTS"), Card(10, "HEARTS")>>
    /\ community_cards =
          <<Card(9, "HEARTS"), Card(2, "DIAMONDS"), Card(7, "CLUBS")>>

SameValue(cs, I) == \A i, j \in I : cs[i].value = cs[j].value

\* the cards at the positions I descend in value (strictly or not)
Descending(cs, I, strict) ==
    \A i, j \in I : i < j =>
        IF strict THEN cs[i].value > cs[j].value ELSE cs[i].value >= cs[j].value

\* the cards at the positions I have another value than the card at g
Kickers(cs, I, g) == \A i \in I : cs[i].value # cs[g].value

\* C9: the 5 cards of a result are ordered by tie-break significance: the
\* cards of the decisive grouping first (the four of a kind; the trips and
\* then the pair of a full house; the trips; the higher and then the lower
\* pair of two pair; the pair), then the kickers in descending rank; for
\* High Card, Flush, Straight, Straight Flush and Royal Flush the 5 cards
\* strictly descend in rank.
C9_TieBreakOrder ==
    (EvaluatorCalled /\ Len(all_cards) >= MinHandSize) =>
        LET cs == out.cards
        IN  /\ Len(cs) = 5
            /\ out.rank = FOUR_OF_A_KIND =>
                  SameValue(cs, 1..4) /\ Kickers(cs, {5}, 1)
            /\ out.rank = FULL_HOUSE =>
                  SameValue(cs, 1..3) /\ SameValue(cs, 4..5) /\ Kickers(cs, 4..5, 1)
            /\ out.rank = THREE_OF_A_KIND =>
                  /\ SameValue(cs, 1..3)
                  /\ Kickers(cs, 4..5, 1)
                  /\ Descending(cs, 4..5, FALSE)
            /\ out.rank = TWO_PAIR =>
                  /\ SameValue(cs, 1..2)
                  /\ SameValue(cs, 3..4)
                  /\ cs[1].value > cs[3].value
                  /\ Kickers(cs, {5}, 1)
                  /\ Kickers(cs, {5}, 3)
            /\ out.rank = PAIR =>
                  /\ SameValue(cs, 1..2)
                  /\ Kickers(cs, 3..5, 1)
                  /\ Descending(cs, 3..5, FALSE)
            /\ out.rank \in {HIGH_CARD, FLUSH, STRAIGHT, STRAIGHT_FLUSH, ROYAL_FLUSH} =>
                  Descending(cs, 1..5, TRUE)

C9_Witness ==
    /\ pc = "evaluated"
    /\ Len(all_cards) = 7
    /\ out.rank = PAIR
    /\ SameValue(out.cards, 1..2)
    /\ Descending(out.cards, 3..5, TRUE)

\* C10: the result does not depend on the order in which the cards are
\* supplied: the same cards in another order give the same category and the
\* same sequence of 5 ranks.
C10_OrderIndependent ==
    pc = "resubmitted" =>
        /\ out.err = ""
        /\ out.rank = prev.rank
        /\ Ranks(out.cards) = Ranks(prev.cards)

\* another order of the same cards, in which another card of a rank is
\* chosen for the straight
C10_Witness ==
    /\ pc = "resubmitted"
    /\ out.rank = STRAIGHT
    /\ prev.rank = STRAIGHT
    /\ out.cards # prev.cards
    /\ Ranks(out.cards) = Ranks(prev.cards)

\* C11: with 2 distinct hole cards and no shared cards the strength is
\* 0.5 + (rank - 2)/24 for a pair (1.0 for Aces, 0.5 for 2s); otherwise
\* min(1.0, 0.3 + (high - 2)/24 + 0.1 if suited + (0.1 if the ranks differ
\* by 1, else 0.05 if they differ by 2) + 0.1 if the lower rank >= 10).
\* Stated in 120ths of the strength.
C11_PreflopStrength ==
    (StrengthCalled /\ community_cards = <<>> /\ Len(hand) = 2) =>
        LET a == hand[1].value
            b == hand[2].value
            high == IF a >= b THEN a ELSE b
            low == IF a >= b THEN b ELSE a
            sum120 == 36 + 5 * (high - 2)
                      + (IF hand[1].suit = hand[2].suit THEN 12 ELSE 0)
                      + (IF high - low = 1 THEN 12
                         ELSE IF high - low = 2 THEN 6 ELSE 0)
                      + (IF low >= 10 THEN 12 ELSE 0)
        IN  /\ out.err = ""
            /\ a = b => 120 * out.strength = (60 + 5 * (a - 2)) * Unit
            /\ (a = b /\ a = 14) => out.strength = Unit
            /\ (a = b /\ a = 2) => 2 * out.strength = Unit
            /\ a # b => 120 * out.strength
                        = (IF sum120 > 120 THEN 120 ELSE sum120) * Unit

\* Ace and King of one suit: the sum is 1.1 and the strength is 1.0
C11_Witness ==
    /\ StrengthCalled
    /\ hand = <<Card(14, "HEARTS"), Card(13, "HEARTS")>>
    /\ community_cards = <<>>
    /\ out.strength = Unit

HandStrengthCalled == pc = "hand_strength"

\* the categories in the order the claim lists them
CategoryOrder ==
    <<HIGH_CARD, PAIR, TWO_PAIR, THREE_OF_A_KIND, STRAIGHT, FLUSH,
      FULL_HOUSE, FOUR_OF_A_KIND, STRAIGHT_FLUSH, ROYAL_FLUSH>>

\* C12: the 10 categories are totally ordered High Card < Pair < Two Pair
\* < Three of a Kind < Straight < Flush < Full House < Four of a Kind
\* < Straight Flush < Royal Flush, and both base-strength tables are
\* monotone in that order; so the strength PokerBot gives an evaluated hand
\* is never below the strength of any weaker category.
C12_BaseStrengthMonotone ==
    HandStrengthCalled =>
        /\ {CategoryOrder[i] : i \in 1..10} = HandRank
        /\ \A i \in 1..10, j \in 1..10 :
              /\ i < j <=> CategoryOrder[i] < CategoryOrder[j]
              /\ i < j => /\ base_strength(CategoryOrder[i])
                             <= base_strength(CategoryOrder[j])
                          /\ calculate_hand_strength(CategoryOrder[i])
                             <= calculate_hand_strength(CategoryOrder[j])
        /\ \A q \in HandRank :
              q < out.rank => calculate_hand_strength(q) <= out.strength

\* PokerBot has given a Full House its strength, 0.9
C12_Witness ==
    /\ HandStrengthCalled
    /\ out.rank = FULL_HOUSE
    /\ 10 * out.strength = 9 * Unit

\* four ranks of the cards that are consecutive (three gaps summing to 3),
\* at any position of the sorted distinct ranks
FourInARow(cards) ==
    \E v \in MinValue..MaxValue :
        \A k \in 0..3 : \E i \in 1..Len(cards) : cards[i].value = v + k

\* four adjacent distinct ranks that span 5 (three gaps summing to 4)
FourWithOneGap(cards) ==
    \E v \in MinValue..MaxValue :
        /\ \E k \in 1..3 :
              /\ \A i \in 1..Len(cards) : cards[i].value # v + k
              /\ \A j \in (0..4) \ {k} :
                    \E i \in 1..Len(cards) : cards[i].value = v + j

\* C13: with 3 or 4 shared cards, four consecutive ranks anywhere among the
\* distinct ranks of hole and shared cards give a straight draw and a
\* drawing strength of at least 0.35; without them, four adjacent distinct
\* ranks whose three gaps sum to 4 give a drawing strength of at least 0.25.
C13_StraightDrawAnyWindow ==
    (StrengthCalled /\ out.err = "" /\ Len(community_cards) \in 3..4) =>
        /\ FourInARow(all_cards) =>
              /\ out.straight_draw # 0
              /\ 100 * out.draw >= 35 * Unit
        /\ (~FourInARow(all_cards) /\ FourWithOneGap(all_cards)) =>
              100 * out.draw >= 25 * Unit

\* the 10, J, Q, K and A of suit s are all in the cards
HasRoyal(cards, s) == \A v \in 10..14 : MemberOf(Card(v, s), cards)

\* C14: for a hand of 5 to 7 distinct cards, evaluate returns ROYAL_FLUSH
\* exactly when the hand holds the 10, J, Q, K and A of one suit, and the 5
\* cards returned are then those cards in the order A, K, Q, J, 10, also
\* when 6 or 7 cards of the suit are in the hand.
C14_RoyalFlush ==
    (EvaluatorCalled /\ Len(all_cards) \in 5..7) =>
        /\ out.rank = ROYAL_FLUSH
              <=> \E i \in 1..4 : HasRoyal(all_cards, Suit[i])
        /\ \A i \in 1..4 :
              HasRoyal(all_cards, Suit[i]) =>
                  out.cards = [k \in 1..5 |-> Card(15 - k, Suit[i])]

\* 7 cards of one suit, the royal cards among them
C14_Witness ==
    /\ pc = "evaluated"
    /\ Len(all_cards) = 7
    /\ \A i \in 1..7 : all_cards[i].suit = "HEARTS"
    /\ out.rank = ROYAL_FLUSH
    /\ out.cards[5] = Card(10, "HEARTS")

HasValue(cards, v) == \E i \in 1..Len(cards) : cards[i].value = v

\* the only run of five consecutive ranks in the cards is A-2-3-4-5
OnlyWheel(cards) ==
    /\ \A v \in {14, 2, 3, 4, 5} : HasValue(cards, v)
    /\ \A v \in MinValue..(MaxValue - 4) :
          \E k \in 0..4 : ~HasValue(cards, v + k)

\* C15: a hand of 5 to 7 distinct cards whose only run of five consecutive
\* ranks is A-2-3-4-5 evaluates neither to STRAIGHT nor to STRAIGHT_FLUSH;
\* the 5 cards A,2,3,4,5 of mixed suits evaluate to HIGH_CARD with the cards
\* A,5,4,3,2, and in one suit to FLUSH.
C15_WheelNotDetected ==
    (EvaluatorCalled /\ Len(all_cards) \in 5..7 /\ OnlyWheel(all_cards)) =>
        /\ out.rank \notin {STRAIGHT, STRAIGHT_FLUSH}
        /\ Len(all_cards) = 5 =>
              IF \A i \in 1..5 : all_cards[i].suit = all_cards[1].suit
              THEN out.rank = FLUSH
              ELSE /\ out.rank = HIGH_CARD
                   /\ [k \in 1..5 |-> out.cards[k].value] = <<14, 5, 4, 3, 2>>

\* A,2,3,4,5 of mixed suits has been evaluated, to HIGH_CARD
C15_Witness ==
    /\ pc = "evaluated"
    /\ hand = <<Card(14, "HEARTS"), Card(2, "DIAMONDS")>>
    /\ community_cards = <<Card(3, "HEARTS"), Card(4, "HEARTS"), Card(5, "CLUBS")>>
    /\ out.rank = HIGH_CARD
    /\ out.cards[2] = Card(5, "CLUBS")

\* the number of cards of rank v among the cards
CountOf(cards, v) == Cardinality({i \in 1..Len(cards) : cards[i].value = v})

SetMax(S) == CHOOSE x \in S : \A y \in S : y <= x

\* the ranks that occur at least n times among the cards
RanksWith(cards, n) == {v \in MinValue..MaxValue : CountOf(cards, v) >= n}

\* C16: when evaluate returns FULL_HOUSE, the first 3 cards have the highest
\* rank occurring at least 3 times and the last 2 cards the highest other
\* rank occurring at least 2 times; a hand with a rank occurring at least 3
\* times and no other rank occurring at least 2 times is never a FULL_HOUSE.
C16_FullHouse ==
    (EvaluatorCalled /\ Len(all_cards) \in 5..7) =>
        LET trips == RanksWith(all_cards, 3)
            paired == RanksWith(all_cards, 2)
            three == SetMax(trips)
            two == SetMax(paired \ {three})
        IN  /\ out.rank = FULL_HOUSE =>
                  /\ trips # {}
                  /\ paired \ {three} # {}
                  /\ \A k \in 1..3 : out.cards[k].value = three
                  /\ \A k \in 4..5 : out.cards[k].value = two
            /\ (\E t \in trips : paired \ {t} = {}) => out.rank # FULL_HOUSE

\* two trips in a hand of 7: Aces full of Kings
C16_Witness ==
    /\ pc = "evaluated"
    /\ Len(all_cards) = 7
    /\ CountOf(all_cards, 14) = 3
    /\ CountOf(all_cards, 13) = 3
    /\ out.rank = FULL_HOUSE
    /\ out.cards[3].value = 14
    /\ out.cards[4].value = 13

TwoPairExample ==
    <<Card(14, "HEARTS"), Card(14, "DIAMONDS"), Card(10, "HEARTS"),
      Card(10, "CLUBS"), Card(2, "SPADES")>>

\* C17: when evaluate returns TWO_PAIR the result is 2 cards of the highest
\* paired rank, 2 cards of the second-highest paired rank and one kicker,
\* the highest card of the hand of another rank than the two pairs (which
\* may be a card of a third pair); Ah Ad 10h 10c 2s gives TWO_PAIR with
\* the cards Ah Ad 10h 10c 2s.
C17_TwoPair ==
    (EvaluatorCalled /\ Len(all_cards) \in 5..7) =>
        /\ out.rank = TWO_PAIR =>
              LET paired == RanksWith(all_cards, 2)
                  first == SetMax(paired)
                  second == SetMax(paired \ {first})
                  others == {all_cards[i].value : i \in 1..Len(all_cards)}
                            \ {first, second}
              IN  /\ Cardinality(paired) >= 2
                  /\ Len(out.cards) = 5
                  /\ \A k \in 1..2 : out.cards[k].value = first
                  /\ \A k \in 3..4 : out.cards[k].value = second
                  /\ others # {}
                  /\ out.cards[5].value = SetMax(others)
        /\ all_cards = TwoPairExample =>
              /\ out.rank = TWO_PAIR
              /\ out.cards = TwoPairExample

\* three pairs in a hand of 6: the kicker is a card of the third pair
C17_Witness ==
    /\ pc = "evaluated"
    /\ Len(all_cards) = 6
    /\ CountOf(all_cards, 14) = 2
    /\ CountOf(all_cards, 10) = 2
    /\ CountOf(all_cards, 2) = 2
    /\ out.rank = TWO_PAIR
    /\ out.cards[5].value = 2

\* the test hand of the source has been evaluated
C17_ExampleReached ==
    /\ pc = "evaluated"
    /\ all_cards = TwoPairExample
    /\ out.rank = TWO_PAIR

CountSuit(cards, s) == Cardinality({i \in 1..Len(cards) : cards[i].suit = s})

\* C18: with 2 hole cards and 3 to 5 shared cards the final strength is
\* max(made, 0.7 * made + 0.3 * draw): never below the made strength, above
\* it only when the drawing strength exceeds the made strength, and equal to
\* it with 5 shared cards, the drawing strength then being 0.
C18_FinalStrength ==
    (StrengthCalled /\ Len(hand) = 2 /\ Len(community_cards) \in 3..5) =>
        /\ out.err = ""
        /\ 10 * out.strength
              = Max2(10 * out.made, 7 * out.made + 3 * out.draw)
        /\ out.strength >= out.made
        /\ out.strength > out.made => out.draw > out.made
        /\ Len(community_cards) = 5 =>
              /\ out.draw = 0
              /\ out.strength = out.made

\* a flush draw on the flop lifts the strength above the made strength
C18_Witness ==
    /\ StrengthCalled
    /\ Len(hand) = 2
    /\ Len(community_cards) = 3
    /\ out.flush_draw
    /\ out.strength > out.made
    /\ 10 * out.strength = 7 * out.made + 3 * out.draw

\* four cards of a suit on the river: no draw is left
C18_RiverReached ==
    /\ StrengthCalled
    /\ Len(community_cards) = 5
    /\ CountSuit(all_cards, "HEARTS") = 4
    /\ out.draw = 0
    /\ out.strength = out.made

\* the tracked actions of the player, in the order of the calls
CallsOf(player_id) ==
    SelectSeq(hand_history, LAMBDA e : e.player_id = player_id)

\* the tracked actions of the player that were CALL, RAISE or ALL_IN on
\* the street 'preflop'
VoluntaryOf(player_id) ==
    SelectSeq(CallsOf(player_id),
              LAMBDA e : e.action \in {"CALL", "RAISE", "ALL_IN"}
                         /\ e.street = "preflop")

\* C19: after any sequence of track_action calls, the total_hands of a
\* player is the number of calls for the player, and vpip is the number of
\* the player's CALL, RAISE or ALL_IN actions on the street 'preflop'
\* divided by total_hands, also after calls with FOLD or CHECK.
C19_VpipIsRunningRate ==
    \A player_id \in DOMAIN player_profiles :
        LET profile == get_stats(player_profiles, player_id)
        IN  /\ profile.total_hands = Len(CallsOf(player_id))
            /\ profile.vpip
                  = Frac(Len(VoluntaryOf(player_id)), profile.total_hands)

\* the part of C19 that the code keeps: total_hands counts the calls
C19_TotalHandsCountsCalls ==
    \A player_id \in DOMAIN player_profiles :
        get_stats(player_profiles, player_id).total_hands
            = Len(CallsOf(player_id))

\* CALL and RAISE of player 1 on 'preflop', as track_action leaves the
\* profile
C19_TwoCalls ==
    /\ Len(hand_history) = 2
    /\ [k \in 1..2 |-> hand_history[k].action] = <<"CALL", "RAISE">>
    /\ \A k \in 1..2 : /\ hand_history[k].player_id = 1
                       /\ hand_history[k].street = "preflop"
    /\ LET profile == get_stats(player_profiles, 1)
       IN  /\ profile.total_hands = 2
           /\ profile.vpip = One
           /\ profile.pfr = Frac(1, 2)
           /\ profile.af = Frac(3, 2)
           /\ profile.avg_bet_size = Frac(1, 10)
           /\ profile.position_stats[0] =
                 [vpip |-> One, pfr |-> Frac(1, 2), hands |-> 2]

\* the 5-card hands of the wheel list
WheelHands ==
    {Sub(WheelList, I) :
        I \in {J \in SUBSET (1..Len(WheelList)) : Cardinality(J) = 5}}

\* C20: the made-hand strength respects the category order: a hand of a
\* strictly stronger category than another hand has a made-hand strength at
\* least as great.  Stated of the hand of the state against every hand of
\* WheelHands.
C20_MadeStrengthRespectsCategory ==
    (StrengthCalled /\ out.err = "" /\ out.rank # 0) =>
        \A h2 \in WheelHands :
            LET r2 == calculate_made_hand_strength(h2, <<>>)
            IN  r2.rank < out.rank => r2.made <= out.made

====
